---- MODULE Spec2Model ----
(***************************************************************************)
(* Model of the SciTokens authorization plugin (src/src/scitokens.cpp):    *)
(* the token -> XrdAccRules cache of XrdAccSciTokens, its inline sweep     *)
(* (Check), and the decision entry point Access, run by several request    *)
(* threads.                                                                *)
(*                                                                         *)
(* Time is the value monotonic_time() returns (whole seconds).  Privilege  *)
(* masks are sets of XrdAccPriv_* names (the empty set is XrdAccPriv_None, *)
(* bitwise OR is set union).  Strings that the code compares byte by byte  *)
(* (paths, rule prefixes) are sequences of characters.                     *)
(*                                                                         *)
(* Undefined behaviour is a nondeterministic choice: using a map iterator  *)
(* whose node was erased yields any iterator position or aborts the        *)
(* process; an unsynchronised access to the map that races with a write    *)
(* proceeds or aborts the process.                                         *)
(*                                                                         *)
(* GenerateAcls is an interface: its body in this repository returns false *)
(* for every token (validator = "stub"); with a validator in its place     *)
(* (validator = "plugged") it also succeeds or throws.                     *)
(*                                                                         *)
(* Specifications: Spec (two request threads), SpecSolo and FairSolo (one  *)
(* thread, without and with fairness), SpecFirstUse (the threads race on   *)
(* one token that was never presented), SpecReconfig (Reconfig reading one *)
(* configuration source after another) and SpecApply (XrdAccRules::apply   *)
(* on rule lists and paths of its own).  Access reads nothing of what      *)
(* Reconfig writes, so Spec follows the plugin constructed without a       *)
(* readable configuration file.                                            *)
(***************************************************************************)
EXTENDS Integers, Sequences, FiniteSets, TLC

\* ---------------------------------------------------------------- bounds
\* how many seconds past the first sweep deadline the clock is followed
MaxLate == 1

\* the longest audience value drawn character by character
MaxAudLen == 3

\* the longest rule list apply is examined on
MaxRules == 2

\* the request threads
Threads == {1, 2}

\* ------------------------------------------------------- program constant
m_expiry_secs == 60

\* ------------------------------------------------------------ input sets
\* authz values presented by requests, in std::map key order
TokenOrder == <<"t1", "t2">>
Tokens == {TokenOrder[i] : i \in 1..Len(TokenOrder)}
NullAuthz == "nullptr"

Paths == { <<"a", "b">>, <<"c">> }
Opers == {"AOP_Read", "AOP_Update"}
NoName == "nullptr_name"
EntityNames == {NoName, "alice"}

\* the readings of monotonic_time() the model follows: construction time
\* and the seconds after the first sweep deadline
Instants == {0} \cup {m_expiry_secs + i : i \in 1..MaxLate}

\* cache_expiry values a successful validation hands back
CacheExpiries == {0, m_expiry_secs + 1}

XrdAccPriv_None == {}

\* the characters audience values are written with
AudienceChars == {",", " ", "a", "b"}

\* audience = alice, bob carol
ExampleAudience ==
  <<"a", "l", "i", "c", "e", ",", " ", "b", "o", "b", " ",
    "c", "a", "r", "o", "l">>

\* values of the audience key
AudienceValues ==
  UNION {[1..k -> AudienceChars] : k \in 0..MaxAudLen} \cup {ExampleAudience}

\* elements of an audience_json array: the strings "x" and "y", and a number
JsonElements ==
  {[is_string |-> TRUE, s |-> <<"x">>], [is_string |-> TRUE, s |-> <<"y">>],
   [is_string |-> FALSE, s |-> <<>>]}

NoJson == [kind |-> "empty", vals |-> <<>>]

\* values of the audience_json key, as picojson reads them
JsonValues ==
  {NoJson, [kind |-> "invalid", vals |-> <<>>],
   [kind |-> "scalar", vals |-> <<>>]}
  \cup {[kind |-> "array", vals |-> v] :
          v \in UNION {[1..k -> JsonElements] : k \in 0..2}}

\* section names, in the order reader.Sections() iterates them:
\* "Global" < "global3" < "globe"
SectionOrder ==
  << <<"G", "l", "o", "b", "a", "l">>,
     <<"g", "l", "o", "b", "a", "l", "3">>,
     <<"g", "l", "o", "b", "e">> >>

Section(name, audience, json) ==
  [name |-> name, audience |-> audience, audience_json |-> json]

\* the sections of files with one section
LoneSections ==
  {Section(SectionOrder[1], a, NoJson) : a \in AudienceValues}
  \cup {Section(SectionOrder[1], a, j) :
          a \in {<<>>, <<"a">>}, j \in JsonValues}
  \cup {Section(SectionOrder[i], <<"a", ",", "b">>, NoJson) :
          i \in 2..Len(SectionOrder)}

\* the sections of files with two sections
PairedSections(name) ==
  {Section(name, a, j) :
     a \in {<<"b", ",">>},
     j \in {NoJson, [kind |-> "invalid", vals |-> <<>>],
            [kind |-> "array", vals |-> <<[is_string |-> TRUE, s |-> <<"x">>]>>],
            [kind |-> "array", vals |-> <<[is_string |-> TRUE, s |-> <<"x">>],
                                         [is_string |-> FALSE, s |-> <<>>]>>]}}

\* the file that cannot be opened (parms is null and m_parms is "")
Unreadable == [error |-> -1, sections |-> <<>>]

\* what the file named by m_parms may hold when Reconfig reads it
Configs ==
  {Unreadable, [error |-> 3, sections |-> <<>>],
   [error |-> 0, sections |-> <<>>]}
  \cup {[error |-> 0, sections |-> <<sec>>] : sec \in LoneSections}
  \cup UNION {{[error |-> 0, sections |-> <<s1, s2>>] :
                 s1 \in PairedSections(SectionOrder[ij[1]]),
                 s2 \in PairedSections(SectionOrder[ij[2]])} :
               ij \in {x \in (1..Len(SectionOrder)) \X (1..Len(SectionOrder)) :
                         x[1] < x[2]}}

\* the operations rules are recorded under and the prefixes they carry
RuleOpers == {"AOP_Any", "AOP_Read", "AOP_Create", "AOP_Stat"}
Prefixes == {<<>>, <<"a">>, <<"a", "b">>, <<"c">>}
RawRules == {<<op, prefix>> : op \in RuleOpers, prefix \in Prefixes}

\* the rule lists, paths and operations apply is examined on
RuleLists == UNION {[1..k -> RawRules] : k \in 0..MaxRules}
ApplyPaths == {<<>>, <<"a">>, <<"a", "b">>, <<"a", "b", "c">>, <<"b">>,
               <<"c", "a">>}
ApplyOpers == {"AOP_Any", "AOP_Read", "AOP_Update"}

\* ------------------------------------------------------------- validator
\* What a successful validation of a token yields besides cache_expiry:
\* the rules and the username are a function of the token.
RulesOf(tok) ==
  IF tok = "t1"
    THEN << <<"AOP_Read", <<"a">> >>, <<"AOP_Create", <<"a", "b">> >> >>
    ELSE << <<"AOP_Any", <<"c">> >>, <<"AOP_Stat", <<"a", "b">> >> >>

UserOf(tok) == IF tok = "t1" THEN "bob" ELSE ""

\* Outcomes of a validator behind the GenerateAcls interface: true with some
\* cache_expiry (rules and username as above), false, or an exception.
Validate(tok) ==
  {[kind |-> "true", cache_expiry |-> e] : e \in CacheExpiries}
  \cup {[kind |-> "false", cache_expiry |-> 0],
        [kind |-> "throw", cache_expiry |-> 0]}

\* GenerateAcls that accepts tokens whatever the build
GenerateAcls_accepting(impl, tok) == Validate(tok)

\* Outcomes of one GenerateAcls call.  The body in this repository returns
\* false whatever the token; a build with a validator in its place has the
\* outcomes of Validate.
GenerateAcls(impl, tok) ==
  IF impl = "stub"
    THEN {[kind |-> "false", cache_expiry |-> 0]}
    ELSE Validate(tok)

\* ----------------------------------------------------------------- chain
\* The chained authorizer: a deterministic function of what it is handed.
ChainAccess(name, p, op) ==
  IF name = NoName THEN XrdAccPriv_None
  ELSE IF op = "AOP_Read" THEN {"XrdAccPriv_Read"}
  ELSE IF p = <<"c">> THEN {"XrdAccPriv_Update"}
  ELSE XrdAccPriv_None

\* ChainOrNone with the chain never consulted
ChainOrNone_dropped(chain, name, p, op) == XrdAccPriv_None

\* m_chain ? m_chain->Access(Entity, path, oper, env) : XrdAccPriv_None
ChainOrNone(chain, name, p, op) ==
  IF chain THEN ChainAccess(name, p, op) ELSE XrdAccPriv_None

\* ------------------------------------------------------------- AddPriv
AddPriv(op, privs) ==
  CASE op = "AOP_Any"     -> privs
    [] op = "AOP_Chmod"   -> privs \cup {"XrdAccPriv_Chmod"}
    [] op = "AOP_Chown"   -> privs \cup {"XrdAccPriv_Chown"}
    [] op = "AOP_Create"  -> privs \cup {"XrdAccPriv_Create"}
    [] op = "AOP_Delete"  -> privs \cup {"XrdAccPriv_Delete"}
    [] op = "AOP_Insert"  -> privs \cup {"XrdAccPriv_Insert"}
    [] op = "AOP_Lock"    -> privs \cup {"XrdAccPriv_Lock"}
    [] op = "AOP_Mkdir"   -> privs \cup {"XrdAccPriv_Mkdir"}
    [] op = "AOP_Read"    -> privs \cup {"XrdAccPriv_Read"}
    [] op = "AOP_Readdir" -> privs \cup {"XrdAccPriv_Readdir"}
    [] op = "AOP_Rename"  -> privs \cup {"XrdAccPriv_Rename"}
    [] op = "AOP_Stat"    -> privs \cup {"XrdAccPriv_Lookup"}
    [] op = "AOP_Update"  -> privs \cup {"XrdAccPriv_Update"}
    [] OTHER              -> privs

\* ------------------------------------------------------------ XrdAccRules
\* std::string::substr(pos, n) on a sequence of characters (pos counts from 0)
substr(s, pos, n) ==
  LET last == IF pos + n < Len(s) THEN pos + n ELSE Len(s)
  IN  SubSeq(s, pos + 1, last)

\* compare with the rule cut to the length of the path
compare_truncated(s, n, r) ==
  IF substr(s, 0, n) = substr(r, 0, Len(s)) THEN 0 ELSE 1

\* s.compare(0, n, r, 0, n): 0 when the two substrings are equal
compare(s, n, r) == IF substr(s, 0, n) = substr(r, 0, n) THEN 0 ELSE 1

RECURSIVE applyFrom(_, _, _, _)
applyFrom(rules, i, p, privs) ==
  IF i > Len(rules) THEN privs
  ELSE LET rule == rules[i]
       IN  applyFrom(rules, i + 1, p,
                     IF compare(p, Len(rule[2]), rule[2]) = 0
                       THEN AddPriv(rule[1], privs)
                       ELSE privs)

\* XrdAccRules::apply(Access_Operation, path)
apply(rs, op, p) == applyFrom(rs.m_rules, 1, p, XrdAccPriv_None)

\* XrdAccRules::expired(), evaluated when monotonic_time() returns t
expired(rs, t) == t > rs.m_expiry_time

\* XrdAccRules(expiry_time, username): the rule list starts empty
NewRules(expiry_time, username) ==
  [m_expiry_time |-> expiry_time, m_username |-> username, m_rules |-> <<>>]

\* XrdAccRules::parse(rules)
parse(rs, rules) == [rs EXCEPT !.m_rules = rs.m_rules \o rules]

\* -------------------------------------------------------------- Reconfig
\* The configuration source as INIReader and picojson hand it to Reconfig:
\* error is reader.ParseError(); sections is reader.Sections() in iteration
\* order; of each section, audience and audience_json are what reader.Get
\* returns (<<>> is the empty string, the default).  An audience_json value
\* is given by what picojson::parse makes of it: "empty" (the empty string),
\* "invalid" (err is not empty), "scalar" (a value that is not an array) or
\* "array" with its elements, each a string s or not a string.

\* std::string::npos
npos == -1

\* the characters of ", " (lines 237 and 238)
Delimiters == {",", " "}

\* find_first_of looking for the comma only
RECURSIVE find_first_of_comma(_, _)
find_first_of_comma(s, pos) ==
  IF pos >= Len(s) THEN npos
  ELSE IF s[pos + 1] = "," THEN pos
  ELSE find_first_of_comma(s, pos + 1)

\* audience.find_first_of(", ", pos)
RECURSIVE find_first_of(_, _)
find_first_of(s, pos) ==
  IF pos >= Len(s) THEN npos
  ELSE IF s[pos + 1] \in Delimiters THEN pos
  ELSE find_first_of(s, pos + 1)

\* Line 237: while (audience.size() > pos && (audience[pos] == ',' ||
\* audience[pos] == ' ')) {pos++;}
RECURSIVE skipDelimiters(_, _)
skipDelimiters(s, pos) ==
  IF Len(s) > pos /\ s[pos + 1] \in Delimiters
    THEN skipDelimiters(s, pos + 1)
    ELSE pos

\* Lines 236-244: the do-while loop entered with pos, pushing onto audiences.
\* With next_pos = npos the count next_pos - pos wraps to a number beyond the
\* end of the string, and substr takes the rest.
RECURSIVE splitFrom(_, _, _)
splitFrom(audience, pos0, audiences) ==
  LET pos      == skipDelimiters(audience, pos0)
      next_pos == find_first_of(audience, pos)
      count    == IF next_pos = npos THEN Len(audience) ELSE next_pos - pos
      next_aud == substr(audience, pos, count)
      pushed   == IF next_aud # <<>> THEN Append(audiences, next_aud)
                                      ELSE audiences
  IN  IF next_pos # npos THEN splitFrom(audience, next_pos, pushed)
                         ELSE pushed

\* Lines 258-264: the elements of the array, up to the first that is not a
\* string
RECURSIVE jsonFrom(_, _, _)
jsonFrom(vals, i, audiences) ==
  IF i > Len(vals) THEN [ok |-> TRUE, audiences |-> audiences]
  ELSE IF ~vals[i].is_string THEN [ok |-> FALSE, audiences |-> audiences]
  ELSE jsonFrom(vals, i + 1, Append(audiences, vals[i].s))

\* std::tolower on the letters section names are written with
tolower(c) ==
  CASE c = "G" -> "g"
    [] c = "L" -> "l"
    [] c = "O" -> "o"
    [] c = "B" -> "b"
    [] c = "A" -> "a"
    [] OTHER   -> c

\* Lines 228-232: section_lower.substr(0, 6) == "global"
IsGlobal(section) ==
  LET section_lower == [i \in 1..Len(section) |-> tolower(section[i])]
  IN  substr(section_lower, 0, 6) = <<"g", "l", "o", "b", "a", "l">>

\* Lines 227-267: the loop over the sections from the i-th on; ok is FALSE
\* when a return false is reached, and audiences is the local vector then.
RECURSIVE sectionsFrom(_, _, _)
sectionsFrom(sections, i, audiences) ==
  IF i > Len(sections) THEN [ok |-> TRUE, audiences |-> audiences]
  ELSE IF ~IsGlobal(sections[i].name)
    THEN sectionsFrom(sections, i + 1, audiences)
  ELSE
    LET audience == sections[i].audience
        split == IF audience # <<>> THEN splitFrom(audience, 0, audiences)
                                    ELSE audiences
        json == sections[i].audience_json
    IN  IF json.kind = "empty" THEN sectionsFrom(sections, i + 1, split)
        ELSE IF json.kind = "invalid"
          THEN [ok |-> FALSE, audiences |-> split]
        ELSE IF json.kind # "array"
          THEN [ok |-> FALSE, audiences |-> split]
        ELSE LET vals == jsonFrom(json.vals, 1, split)
             IN  IF vals.ok
                   THEN sectionsFrom(sections, i + 1, vals.audiences)
                   ELSE vals

\* Lines 213-267: Reconfig up to its return false or to line 268, with the
\* local vector audiences as it is there
parseConfig(cfg) ==
  IF cfg.error < 0 THEN [ok |-> FALSE, audiences |-> <<>>]
  ELSE IF cfg.error # 0 THEN [ok |-> FALSE, audiences |-> <<>>]
  ELSE sectionsFrom(cfg.sections, 1, <<>>)

\* commit that keeps what was accumulated when Reconfig fails
commit_partial(parsed, old) == parsed.audiences

\* Line 268 (m_audiences = std::move(audiences)) or a return false before
\* it: m_audiences after a Reconfig that found it holding old
commit(parsed, old) == IF parsed.ok THEN parsed.audiences ELSE old

\* ------------------------------------------------------------------ state
VARIABLES
  clock,         \* what monotonic_time() returns now
  validator,     \* which GenerateAcls the build carries
  m_chain,       \* TRUE when a chained authorizer is configured
  m_map,         \* token -> <<>> (no entry) or <<XrdAccRules>>
  m_next_clean,
  m_mutex,       \* 0, or the thread that holds the lock_guard
  crashed,       \* the process was aborted by undefined behaviour
  pc,            \* per thread: position inside Access
  authz,         \* per thread: the authz of the call in hand
  now,           \* per thread: local now
  access_rules,  \* per thread: <<>> (empty shared_ptr) or <<XrdAccRules>>
  iter,          \* per thread: Check's iterator, a key or "end"
  how,           \* per thread: how the call in hand came by access_rules
  ret,           \* the Access call that returned in the last step, if any
  m_audiences,   \* the audience list
  reconf,        \* the last Reconfig call: what it read and what it returned
  applied        \* the XrdAccRules::apply call under examination

\* the state Access and Check neither read nor write
aside == <<m_audiences, reconf, applied>>

vars == <<clock, validator, m_chain, m_map, m_next_clean, m_mutex, crashed,
          pc, authz, now, access_rules, iter, how, ret, aside>>

End == "end"

Present(k) == k \in Tokens /\ m_map[k] # <<>>

\* m_map.begin(): the smallest key present
RECURSIVE firstFrom(_, _)
firstFrom(m, i) ==
  IF i > Len(TokenOrder) THEN End
  ELSE IF m[TokenOrder[i]] # <<>> THEN TokenOrder[i]
  ELSE firstFrom(m, i + 1)

begin(m) == firstFrom(m, 1)

IndexOf(k) == CHOOSE i \in 1..Len(TokenOrder) : TokenOrder[i] = k

\* iter++ on a valid iterator: the next key present
successor(m, k) == firstFrom(m, IndexOf(k) + 1)

Positions(m) == {k \in Tokens : m[k] # <<>>} \cup {End}

\* ret when the last step returned from no call
NoReturn ==
  [thread |-> 0, authz |-> NullAuthz, path |-> <<>>, oper |-> "AOP_Any",
   name_in |-> NoName, name |-> NoName, how |-> "none",
   rules |-> <<>>, privs |-> XrdAccPriv_None, chained |-> FALSE,
   result |-> XrdAccPriv_None]

\* ret after thread t returned r from Access(Entity, p, op, env): name_in is
\* Entity->name on entry and name is Entity->name on return, rules is the
\* XrdAccRules the call resolved (<<>> if none), privs what apply gave, and
\* chained tells whether m_chain->Access was called.
Returned(t, tok, p, op, name_in, name, h, rules, privs, chained, r) ==
  [thread |-> t, authz |-> tok, path |-> p, oper |-> op,
   name_in |-> name_in, name |-> name, how |-> h,
   rules |-> rules, privs |-> privs, chained |-> chained, result |-> r]

\* reconf after a Reconfig call that read cfg; again tells whether the call
\* before it read the same
Reconfigured(cfg, again) ==
  [config |-> cfg, ok |-> parseConfig(cfg).ok, again |-> again]

\* applied when apply is not under examination
NoApply ==
  [rules |-> <<>>, path |-> <<>>, oper |-> "AOP_Any", called |-> FALSE,
   privs |-> XrdAccPriv_None]

Init ==
  /\ clock = 0
  /\ validator \in {"stub", "plugged"}
  /\ m_chain \in BOOLEAN
  /\ m_map = [k \in Tokens |-> <<>>]
  /\ m_next_clean = clock + m_expiry_secs
  /\ m_mutex = 0
  /\ crashed = FALSE
  /\ pc = [t \in Threads |-> "idle"]
  /\ authz = [t \in Threads |-> NullAuthz]
  /\ now = [t \in Threads |-> 0]
  /\ access_rules = [t \in Threads |-> <<>>]
  /\ iter = [t \in Threads |-> End]
  /\ how = [t \in Threads |-> "none"]
  /\ ret = NoReturn
  \* line 140: Reconfig() on a file that cannot be opened
  /\ m_audiences = commit(parseConfig(Unreadable), <<>>)
  /\ reconf = Reconfigured(Unreadable, FALSE)
  /\ applied = NoApply

\* monotonic_time() advances
Tick ==
  /\ ~crashed
  /\ UNCHANGED aside
  /\ \E c \in Instants :
       /\ c > clock
       /\ clock' = c
  /\ ret' = NoReturn
  /\ UNCHANGED <<validator, m_chain, m_map, m_next_clean, m_mutex, crashed,
                 pc, authz, now, access_rules, iter, how>>

\* ----------------------------------------------------------------- Access
\* ReturnChain answering XrdAccPriv_None whatever the chain says
ReturnChain_denied(t, tok, p, op, name, h) ==
  Returned(t, tok, p, op, name, name, h, <<>>, XrdAccPriv_None, FALSE,
           XrdAccPriv_None)

\* m_chain ? m_chain->Access(...) : XrdAccPriv_None, as a return of thread t
\* that resolved no rules
ReturnChain(t, tok, p, op, name, h) ==
  Returned(t, tok, p, op, name, name, h, <<>>, XrdAccPriv_None, m_chain,
           ChainOrNone(m_chain, name, p, op))

\* Lines 150-153: no authz in the environment.
Access_NoToken(t) ==
  /\ ~crashed
  /\ UNCHANGED aside
  /\ pc[t] = "idle"
  /\ \E p \in Paths, op \in Opers, name \in EntityNames :
       ret' = ReturnChain(t, NullAuthz, p, op, name, "notoken")
  /\ UNCHANGED <<clock, validator, m_chain, m_map, m_next_clean, m_mutex,
                 crashed, pc, authz, now, access_rules, iter, how>>

\* Lines 150-155: authz present; now = monotonic_time().
\* Entity, path and oper are read for the first time at lines 173, 177 and
\* 183-187; the request's values are drawn there.
Access_Begin(t) ==
  /\ ~crashed
  /\ UNCHANGED aside
  /\ pc[t] = "idle"
  /\ \E tok \in Tokens : authz' = [authz EXCEPT ![t] = tok]
  /\ now' = [now EXCEPT ![t] = clock]
  /\ pc' = [pc EXCEPT ![t] = "check"]
  /\ ret' = NoReturn
  /\ UNCHANGED <<clock, validator, m_chain, m_map, m_next_clean, m_mutex,
                 crashed, access_rules, iter, how>>

\* Check, line 274: the gate
SweepDue(n, next_clean) == ~(n <= next_clean)

\* Check, lines 274-276: return early, or start the loop at m_map.begin().
\* No lock is taken and m_next_clean is not assigned.
Check_Enter(t) ==
  /\ ~crashed
  /\ UNCHANGED aside
  /\ pc[t] = "check"
  /\ IF SweepDue(now[t], m_next_clean)
       THEN /\ iter' = [iter EXCEPT ![t] = begin(m_map)]
            /\ pc' = [pc EXCEPT ![t] = "sweep"]
       ELSE /\ pc' = [pc EXCEPT ![t] = "lock1"]
            /\ UNCHANGED iter
  /\ ret' = NoReturn
  /\ UNCHANGED <<clock, validator, m_chain, m_map, m_next_clean, m_mutex,
                 crashed, authz, now, access_rules, how>>

\* m_map.erase(iter)
erase(m, k) == [m EXCEPT ![k] = <<>>]

\* Check, lines 276-279: loop test and body for the current iterator.
\* An iterator whose node is gone (erased by another thread) is used
\* anyway; the model lets the loop go on to the increment.
Check_Body(t) ==
  /\ ~crashed
  /\ UNCHANGED aside
  /\ pc[t] = "sweep"
  /\ IF iter[t] = End
       THEN /\ pc' = [pc EXCEPT ![t] = "lock1"]
            /\ UNCHANGED m_map
       ELSE /\ pc' = [pc EXCEPT ![t] = "sweep_inc"]
            /\ IF Present(iter[t]) /\ expired(m_map[iter[t]][1], clock)
                 THEN m_map' = erase(m_map, iter[t])
                 ELSE UNCHANGED m_map
  /\ ret' = NoReturn
  /\ UNCHANGED <<clock, validator, m_chain, m_next_clean, m_mutex, crashed,
                 authz, now, access_rules, iter, how>>

\* Check, line 276: iter++.  After erase(iter), or after another thread
\* erased the node, the iterator is invalid and the increment is undefined:
\* it lands on any position of the map.
Check_Inc(t) ==
  /\ ~crashed
  /\ UNCHANGED aside
  /\ pc[t] = "sweep_inc"
  /\ IF Present(iter[t])
       THEN iter' = [iter EXCEPT ![t] = successor(m_map, iter[t])]
       ELSE \E pos \in Positions(m_map) : iter' = [iter EXCEPT ![t] = pos]
  /\ pc' = [pc EXCEPT ![t] = "sweep"]
  /\ ret' = NoReturn
  /\ UNCHANGED <<clock, validator, m_chain, m_map, m_next_clean, m_mutex,
                 crashed, authz, now, access_rules, how>>

\* thread t is inside Check's loop, which touches m_map without the lock
InSweep(t) == pc[t] \in {"sweep", "sweep_inc"}

\* thread t is about to erase from m_map
AboutToErase(t) ==
  /\ pc[t] = "sweep"
  /\ Present(iter[t])
  /\ expired(m_map[iter[t]][1], clock)

\* thread t is inside a critical section of Access
InCritical(t) == pc[t] \in {"lookup", "insert"}

\* thread t uses an iterator whose node was erased
InvalidIterator(t) == InSweep(t) /\ iter[t] # End /\ ~Present(iter[t])

\* t's unlocked pass over m_map runs while another thread writes the map,
\* or t's erase runs while another thread reads or writes it
DataRace(t) ==
  /\ InSweep(t)
  /\ \E u \in Threads \ {t} :
       \/ pc[u] = "insert"
       \/ AboutToErase(u)
       \/ AboutToErase(t) /\ (InCritical(u) \/ InSweep(u))

\* Undefined behaviour in Check (lines 276-279) aborts the process: no
\* call in flight returns and the cache stays as it was.
Check_Abort(t) ==
  /\ ~crashed
  /\ UNCHANGED aside
  /\ InvalidIterator(t) \/ DataRace(t)
  /\ crashed' = TRUE
  /\ m_mutex' = 0
  /\ pc' = [u \in Threads |-> "aborted"]
  /\ authz' = [u \in Threads |-> NullAuthz]
  /\ now' = [u \in Threads |-> 0]
  /\ access_rules' = [u \in Threads |-> <<>>]
  /\ iter' = [u \in Threads |-> End]
  /\ how' = [u \in Threads |-> "none"]
  /\ ret' = NoReturn
  /\ UNCHANGED <<clock, validator, m_chain, m_map, m_next_clean>>

\* Line 158: std::lock_guard guard(m_mutex)
Access_Lock1(t) ==
  /\ ~crashed
  /\ UNCHANGED aside
  /\ pc[t] = "lock1"
  /\ m_mutex = 0
  /\ m_mutex' = t
  /\ pc' = [pc EXCEPT ![t] = "lookup"]
  /\ ret' = NoReturn
  /\ UNCHANGED <<clock, validator, m_chain, m_map, m_next_clean, crashed,
                 authz, now, access_rules, iter, how>>

\* find without the expired() test of line 160
find_stale(m, tok, tm) == m[tok]

\* Lines 159-162: what the lookup leaves in access_rules when
\* monotonic_time() returns tm
find(m, tok, tm) ==
  IF m[tok] # <<>> /\ ~expired(m[tok][1], tm) THEN m[tok] ELSE <<>>

\* Lines 159-164: lookup, end of the guarded block, test of access_rules.
Access_Lookup(t) ==
  /\ ~crashed
  /\ UNCHANGED aside
  /\ pc[t] = "lookup"
  /\ m_mutex = t
  /\ LET found == find(m_map, authz[t], clock)
     IN  /\ access_rules' = [access_rules EXCEPT ![t] = found]
         /\ pc' = [pc EXCEPT ![t] = IF found = <<>> THEN "generate"
                                                     ELSE "finish"]
         /\ how' = [how EXCEPT ![t] = IF found = <<>> THEN "miss" ELSE "hit"]
         \* now is read again only at line 170
         /\ now' = [now EXCEPT ![t] = IF found = <<>> THEN now[t] ELSE 0]
  /\ m_mutex' = 0
  /\ ret' = NoReturn
  /\ UNCHANGED <<clock, validator, m_chain, m_map, m_next_clean, crashed,
                 authz, iter>>

\* Construct without the parse of line 171
Construct_unparsed(expiry_time, username, rules) ==
  NewRules(expiry_time, username)

\* Lines 170-171: reset(new XrdAccRules(...)) followed by parse(rules);
\* the object is reachable only from this thread until line 180
Construct(expiry_time, username, rules) ==
  parse(NewRules(expiry_time, username), rules)

\* Lines 165-178: GenerateAcls; on true the XrdAccRules object is
\* constructed and filled, on false or on an exception the chain answers.
Access_Generate(t) ==
  /\ ~crashed
  /\ UNCHANGED aside
  /\ pc[t] = "generate"
  /\ \E out \in GenerateAcls(validator, authz[t]) :
       IF out.kind = "true"
         THEN /\ access_rules' = [access_rules EXCEPT ![t] =
                   <<Construct(now[t] + out.cache_expiry, UserOf(authz[t]),
                               RulesOf(authz[t]))>>]
              /\ pc' = [pc EXCEPT ![t] = "lock2"]
              /\ ret' = NoReturn
              /\ UNCHANGED <<authz, how>>
         ELSE /\ \E p \in Paths, op \in Opers, name \in EntityNames :
                   ret' = ReturnChain(t, authz[t], p, op, name, out.kind)
              /\ pc' = [pc EXCEPT ![t] = "idle"]
              /\ authz' = [authz EXCEPT ![t] = NullAuthz]
              /\ how' = [how EXCEPT ![t] = "none"]
              /\ UNCHANGED access_rules
  \* line 170 is the last read of now
  /\ now' = [now EXCEPT ![t] = 0]
  /\ UNCHANGED <<clock, validator, m_chain, m_map, m_next_clean, m_mutex,
                 crashed, iter>>

\* Line 179: std::lock_guard guard(m_mutex)
Access_Lock2(t) ==
  /\ ~crashed
  /\ UNCHANGED aside
  /\ pc[t] = "lock2"
  /\ m_mutex = 0
  /\ m_mutex' = t
  /\ pc' = [pc EXCEPT ![t] = "insert"]
  /\ ret' = NoReturn
  /\ UNCHANGED <<clock, validator, m_chain, m_map, m_next_clean, crashed,
                 authz, now, access_rules, iter, how>>

\* insert filing the rules under the first key of the map
insert_misfiled(m, tok, rules) == [m EXCEPT ![TokenOrder[1]] = rules]

\* insert that leaves an entry already there in place
insert_if_absent(m, tok, rules) ==
  IF m[tok] # <<>> THEN m ELSE [m EXCEPT ![tok] = rules]

\* Line 180: m_map[authz] = access_rules
insert(m, tok, rules) == [m EXCEPT ![tok] = rules]

\* Access_Insert with a guard that lives to the end of Access
Access_Insert_guard_kept(t) ==
  /\ ~crashed
  /\ UNCHANGED aside
  /\ pc[t] = "insert"
  /\ m_mutex = t
  /\ m_map' = insert(m_map, authz[t], access_rules[t])
  /\ how' = [how EXCEPT ![t] = "generated"]
  /\ pc' = [pc EXCEPT ![t] = "finish"]
  /\ ret' = NoReturn
  /\ UNCHANGED <<clock, validator, m_chain, m_next_clean, m_mutex, crashed,
                 authz, now, access_rules, iter>>

\* Lines 180-181: store, then the guard goes out of scope.
Access_Insert(t) ==
  /\ ~crashed
  /\ UNCHANGED aside
  /\ pc[t] = "insert"
  /\ m_mutex = t
  /\ m_map' = insert(m_map, authz[t], access_rules[t])
  /\ m_mutex' = 0
  /\ how' = [how EXCEPT ![t] = "generated"]
  /\ pc' = [pc EXCEPT ![t] = "finish"]
  /\ ret' = NoReturn
  /\ UNCHANGED <<clock, validator, m_chain, m_next_clean, crashed,
                 authz, now, access_rules, iter>>

\* NameAfter without the test of Entity->name
NameAfter_overwriting(rs, name) ==
  IF rs.m_username # "" THEN rs.m_username ELSE name

\* Lines 182-185: Entity->name after the username is taken over
NameAfter(rs, name) ==
  IF rs.m_username # "" /\ name = NoName THEN rs.m_username ELSE name

\* AsksChain without the test for XrdAccPriv_None
AsksChain_always(privs, chain) == chain

\* Line 187: whether the chain is asked once the rules gave privs
AsksChain(privs, chain) == privs = XrdAccPriv_None /\ chain

\* Decision that stops at the rules' mask
Decision_rules_only(privs, chain, name, p, op) == privs

\* Line 187: the value returned once the rules gave privs
Decision(privs, chain, name, p, op) ==
  IF AsksChain(privs, chain) THEN ChainAccess(name, p, op) ELSE privs

\* Lines 182-187: username, apply, return.
Access_Finish(t) ==
  /\ ~crashed
  /\ UNCHANGED aside
  /\ pc[t] = "finish"
  /\ \E p \in Paths, op \in Opers, name_in \in EntityNames :
       LET rs == access_rules[t][1]
           name == NameAfter(rs, name_in)
           privs == apply(rs, op, p)
       IN  ret' = Returned(t, authz[t], p, op, name_in, name, how[t],
                           access_rules[t], privs, AsksChain(privs, m_chain),
                           Decision(privs, m_chain, name, p, op))
  /\ access_rules' = [access_rules EXCEPT ![t] = <<>>]
  /\ authz' = [authz EXCEPT ![t] = NullAuthz]
  /\ how' = [how EXCEPT ![t] = "none"]
  /\ pc' = [pc EXCEPT ![t] = "idle"]
  /\ UNCHANGED <<clock, validator, m_chain, m_map, m_next_clean, m_mutex,
                 crashed, now, iter>>

\* one step of request thread t
Step(t) ==
  \/ Access_NoToken(t)
  \/ Access_Begin(t)
  \/ Check_Enter(t)
  \/ Check_Body(t)
  \/ Check_Inc(t)
  \/ Check_Abort(t)
  \/ Access_Lock1(t)
  \/ Access_Lookup(t)
  \/ Access_Generate(t)
  \/ Access_Lock2(t)
  \/ Access_Insert(t)
  \/ Access_Finish(t)

Next ==
  \/ Tick
  \/ \E t \in Threads : Step(t)

Spec == Init /\ [][Next]_vars

\* The plugin serving one request at a time: only thread 1 makes calls.
NextSolo ==
  \/ Tick
  \/ Step(1)

SpecSolo == Init /\ [][NextSolo]_vars

\* SpecSolo with the clock advancing, token-bearing calls arriving and every
\* call in hand running on.
FairSolo ==
  /\ SpecSolo
  /\ WF_vars(Tick)
  /\ WF_vars(Access_Begin(1))
  /\ WF_vars(Check_Enter(1) \/ Check_Body(1) \/ Check_Inc(1)
             \/ Access_Lock1(1) \/ Access_Lookup(1) \/ Access_Generate(1)
             \/ Access_Lock2(1) \/ Access_Insert(1) \/ Access_Finish(1))

\* The first-use race: every thread has just entered Access (lines 150-155)
\* with the same token, which no call presented before, at or before the
\* present reading of the clock; no further call is made.
FirstUseToken == "t1"

InitFirstUse ==
  /\ clock \in Instants
  /\ validator = "plugged"
  /\ m_chain \in BOOLEAN
  /\ m_map = [k \in Tokens |-> <<>>]
  /\ m_next_clean = 0 + m_expiry_secs
  /\ m_mutex = 0
  /\ crashed = FALSE
  /\ pc = [t \in Threads |-> "check"]
  /\ authz = [t \in Threads |-> FirstUseToken]
  /\ now \in [Threads -> {c \in Instants : c <= clock}]
  /\ access_rules = [t \in Threads |-> <<>>]
  /\ iter = [t \in Threads |-> End]
  /\ how = [t \in Threads |-> "none"]
  /\ ret = NoReturn
  /\ m_audiences = commit(parseConfig(Unreadable), <<>>)
  /\ reconf = Reconfigured(Unreadable, FALSE)
  /\ applied = NoApply

\* a step of a call whose validation succeeds
FirstUseStep(t) ==
  \/ Check_Enter(t)
  \/ Check_Body(t)
  \/ Check_Inc(t)
  \/ Check_Abort(t)
  \/ Access_Lock1(t)
  \/ Access_Lookup(t)
  \/ Access_Generate(t) /\ pc'[t] = "lock2"
  \/ Access_Lock2(t)
  \/ Access_Insert(t)
  \/ Access_Finish(t)

NextFirstUse ==
  \/ Tick
  \/ \E t \in Threads : FirstUseStep(t)

SpecFirstUse == InitFirstUse /\ [][NextFirstUse]_vars

\* ------------------------------------------------------ Reconfig alone
\* The plugin with no request in flight; only the cache-free state moves.
Idle ==
  /\ clock = 0
  /\ validator = "stub"
  /\ m_chain = FALSE
  /\ m_map = [k \in Tokens |-> <<>>]
  /\ m_next_clean = clock + m_expiry_secs
  /\ m_mutex = 0
  /\ crashed = FALSE
  /\ pc = [t \in Threads |-> "idle"]
  /\ authz = [t \in Threads |-> NullAuthz]
  /\ now = [t \in Threads |-> 0]
  /\ access_rules = [t \in Threads |-> <<>>]
  /\ iter = [t \in Threads |-> End]
  /\ how = [t \in Threads |-> "none"]
  /\ ret = NoReturn

cacheVars == <<clock, validator, m_chain, m_map, m_next_clean, m_mutex,
               crashed, pc, authz, now, access_rules, iter, how, ret>>

\* Lines 133-141: the constructor's Reconfig, m_audiences empty before it
InitReconfig ==
  /\ Idle
  /\ \E cfg \in Configs :
       /\ m_audiences = commit(parseConfig(cfg), <<>>)
       /\ reconf = Reconfigured(cfg, FALSE)
  /\ applied = NoApply

\* Lines 211-270: Reconfig reads the file, which holds cfg
Reconfig ==
  /\ \E cfg \in Configs :
       /\ m_audiences' = commit(parseConfig(cfg), m_audiences)
       /\ reconf' = Reconfigured(cfg, cfg = reconf.config)
  /\ UNCHANGED <<cacheVars, applied>>

SpecReconfig == InitReconfig /\ [][Reconfig]_vars

\* --------------------------------------------------------- apply alone
\* An XrdAccRules object built from a rule list, and one apply call on it.
InitApply ==
  /\ Idle
  /\ m_audiences = commit(parseConfig(Unreadable), <<>>)
  /\ reconf = Reconfigured(Unreadable, FALSE)
  /\ \E rules \in RuleLists, p \in ApplyPaths, op \in ApplyOpers :
       applied = [rules |-> rules, path |-> p, oper |-> op,
                  called |-> FALSE, privs |-> XrdAccPriv_None]

\* Lines 95-119: construct, parse, apply
Apply_Call ==
  /\ ~applied.called
  /\ applied' = [applied EXCEPT
        !.called = TRUE,
        !.privs = apply(Construct(0, "", applied.rules), applied.oper,
                        applied.path)]
  /\ UNCHANGED <<cacheVars, m_audiences, reconf>>

SpecApply == InitApply /\ [][Apply_Call]_vars

TypeOK ==
  /\ clock \in Instants
  /\ m_mutex \in {0} \cup Threads
  /\ \A t \in Threads : pc[t] \in {"idle", "check", "sweep", "sweep_inc",
        "lock1", "lookup", "generate", "lock2", "insert", "finish",
        "aborted"}


\* ================================================================= claims

\* prefix is a literal prefix of p
IsPrefix(prefix, p) ==
  /\ Len(prefix) <= Len(p)
  /\ \A i \in 1..Len(prefix) : prefix[i] = p[i]

\* the last step returned from a call that resolved an XrdAccRules object
ResolvedReturn == ret.how \in {"hit", "generated"}

\* the chain's answer for the request of the last return, or the empty mask
\* without a chain
ChainAnswer(name) ==
  IF m_chain THEN ChainAccess(name, ret.path, ret.oper) ELSE {}

\* C1: the lookup hands a cached XrdAccRules to the request only if the
\* clock has not passed its expiry at the moment of the lookup; an entry
\* whose expiry the clock has passed is not taken, and the call goes on to
\* the validator.
C1_CachedRulesUsedOnlyIfFresh ==
  [][\A t \in Threads :
       (pc[t] = "lookup" /\ pc'[t] \in {"finish", "generate"}) =>
         LET entry == m_map[authz[t]]
         IN  /\ pc'[t] = "finish" =>
                  /\ entry # <<>>
                  /\ clock <= entry[1].m_expiry_time
                  /\ access_rules'[t] = entry
             /\ (entry # <<>> /\ clock > entry[1].m_expiry_time) =>
                  /\ pc'[t] = "generate"
                  /\ access_rules'[t] = <<>>]_vars

\* C1 witness: one call took an entry at the very second of its expiry while
\* another found its token's entry expired and stands before the validator.
C1_Witness ==
  \E t, u \in Threads :
    /\ pc[t] = "finish" /\ how[t] = "hit"
    /\ access_rules[t][1].m_expiry_time = clock
    /\ pc[u] = "generate"
    /\ m_map[authz[u]] # <<>>
    /\ clock > m_map[authz[u]][1].m_expiry_time

\* C2: a call that resolved rules returns the chain's answer (the empty mask
\* without a chain) when the rules give the empty mask, which they do
\* whenever no rule's prefix is a prefix of the path; it returns the rules'
\* mask, without asking the chain, when that mask is not empty.
C2_EmptyMaskDefersToChain ==
  ResolvedReturn =>
    LET rules == ret.rules[1].m_rules
    IN  /\ (\A i \in 1..Len(rules) : ~IsPrefix(rules[i][2], ret.path))
             => ret.privs = {}
        /\ ret.privs = {} => ret.result = ChainAnswer(ret.name)
        /\ ret.privs # {} => ret.result = ret.privs /\ ~ret.chained

\* C2 witness: rules that match nothing on the path, and a chain that grants.
C2_Witness ==
  /\ ResolvedReturn
  /\ \A i \in 1..Len(ret.rules[1].m_rules) :
        ~IsPrefix(ret.rules[1].m_rules[i][2], ret.path)
  /\ ret.chained
  /\ ret.result # {}

\* C3: a call without a token returns the chain's answer (the empty mask
\* without a chain) in one step that leaves the cache, m_next_clean and the
\* entity's name as they were and enters neither the sweep nor the validator.
C3_NoTokenOnlyDelegates ==
  [][(ret'.how = "notoken" /\ ret' # ret) =>
       /\ ret'.result = IF m_chain
                          THEN ChainAccess(ret'.name_in, ret'.path, ret'.oper)
                          ELSE {}
       /\ ret'.name = ret'.name_in
       /\ ret'.rules = <<>>
       /\ UNCHANGED <<m_map, m_next_clean, m_mutex, pc, iter, access_rules>>
    ]_vars

\* C3 witness: a token-less call answered by the chain while the cache holds
\* an expired entry and a sweep is due.
C3_Witness ==
  /\ ret.how = "notoken"
  /\ ret.result # {}
  /\ SweepDue(clock, m_next_clean)
  /\ \E k \in Tokens : Present(k) /\ expired(m_map[k][1], clock)

\* C4: when the validator answers false or throws, the call returns the
\* chain's answer (the empty mask without a chain); the step writes no cache
\* entry and leaves the entity's name as it was.
C4_ValidatorFailureDefersToChain ==
  [][(ret'.how \in {"false", "throw"} /\ ret' # ret) =>
       /\ ret'.result = IF m_chain
                          THEN ChainAccess(ret'.name_in, ret'.path, ret'.oper)
                          ELSE {}
       /\ ret'.name = ret'.name_in
       /\ ret'.rules = <<>>
       /\ pc'[ret'.thread] = "idle"
       /\ UNCHANGED <<m_map, m_mutex, crashed>>
    ]_vars

\* C4 witness: the validator threw for a token whose expired entry is still
\* in the cache, and the chain granted.
C4_Witness ==
  /\ ret.how = "throw"
  /\ ret.result # {}
  /\ Present(ret.authz)
  /\ ret.name = ret.name_in

\* C5: a thread touches m_map (lookup, insert, the sweep's pass and erases)
\* only while it holds m_mutex.
C5_MapAccessUnderLock ==
  \A t \in Threads : (InCritical(t) \/ InSweep(t)) => m_mutex = t


\* the calls of the first-use race have all returned
AllReturned == \A t \in Threads : pc[t] = "idle"

\* the cache holds one entry, under the token of the race, with the rules and
\* the username the validator gave for that token
OneWholeEntry ==
  /\ m_map[FirstUseToken] # <<>>
  /\ m_map[FirstUseToken][1].m_rules = RulesOf(FirstUseToken)
  /\ m_map[FirstUseToken][1].m_username = UserOf(FirstUseToken)
  /\ \A k \in Tokens \ {FirstUseToken} : m_map[k] = <<>>

\* C6: of the concurrent calls that present the same unseen token none is cut
\* off, and once all have returned the cache holds exactly one entry for the
\* token, a whole XrdAccRules object.
C6_FirstUseRaceCompletes ==
  /\ \A t \in Threads : pc[t] # "aborted"
  /\ AllReturned => OneWholeEntry

\* The part of C6 about the cache once the race is over: it holds in every
\* state of SpecFirstUse, the abort apart.
C6_CacheAfterRace == AllReturned => OneWholeEntry

\* thread t's pass over the cache ends with this step
SweepEnds(t) == pc[t] = "sweep" /\ pc'[t] = "lock1"

\* C7: a sweep erases only expired entries, and when it ends no entry that
\* was expired at the call's now is left in the cache.
C7_SweepRemovesExactlyExpired ==
  [][/\ \A k \in Tokens :
          (m_map[k] # <<>> /\ m_map'[k] = <<>>) => expired(m_map[k][1], clock)
     /\ \A t \in Threads :
          SweepEnds(t) =>
            \A k \in Tokens :
              m_map'[k] # <<>> => ~expired(m_map'[k][1], now[t])]_vars

\* C8: a sweep that runs at now moves m_next_clean to now + 60, so that the
\* next sweep is at least one interval away.
C8_SweepReschedules ==
  [][\A t \in Threads :
       (pc[t] = "check" /\ pc'[t] = "sweep") =>
          m_next_clean' = now[t] + m_expiry_secs]_vars

MatchingPrivs(rules, p) ==
  UNION {AddPriv(rules[i][1], {}) :
           i \in {j \in 1..Len(rules) : IsPrefix(rules[j][2], p)}}

\* the mask a call owes to a request, from what the validator gives for the
\* token and what the chain answers
ExpectedMask(tok, p, op, name_in) ==
  LET privs == MatchingPrivs(RulesOf(tok), p)
      name == IF UserOf(tok) # "" /\ name_in = NoName THEN UserOf(tok)
                                                        ELSE name_in
  IN  IF privs = {} /\ m_chain THEN ChainAccess(name, p, op) ELSE privs

\* two calls that resolved rules returned in two successive steps
SuccessiveReturns ==
  /\ ResolvedReturn /\ ResolvedReturn'
  /\ ret'.thread # ret.thread

\* C10 as stated: two calls that resolved rules for the same token, path and
\* operation return the same mask.
C10_SameTokenPathOperSameMask ==
  [][(/\ SuccessiveReturns
      /\ ret'.authz = ret.authz
      /\ ret'.path = ret.path
      /\ ret'.oper = ret.oper) => ret'.result = ret.result]_vars

\* C10 amended: the mask returned by a call that resolved rules is a function
\* of the token, the path, the operation and the entity's name on entry, so
\* two such calls with the same token, path, operation and entity return the
\* same mask, whichever XrdAccRules object each of them resolved and
\* whatever ran in between.
C10_SameRequestSameMask ==
  [][/\ ResolvedReturn' =>
          ret'.result = ExpectedMask(ret'.authz, ret'.path, ret'.oper,
                                     ret'.name_in)
     /\ (/\ SuccessiveReturns
         /\ ret'.authz = ret.authz
         /\ ret'.path = ret.path
         /\ ret'.oper = ret.oper
         /\ ret'.name_in = ret.name_in) => ret'.result = ret.result]_vars

\* C10 witness: a call returned a non-empty mask from a cache hit while
\* another call for the same token, about to return, holds a different
\* XrdAccRules object, the one that has replaced the first call's entry in
\* the cache.
C10_Witness ==
  /\ ret.how = "hit"
  /\ ret.result # {}
  /\ \E u \in Threads :
       /\ pc[u] = "finish"
       /\ authz[u] = ret.authz
       /\ access_rules[u] # ret.rules
       /\ m_map[ret.authz] = access_rules[u]

\* the rule lists that hold the rules of a list in some order
Reorderings(rules) ==
  LET n == Len(rules)
  IN  {[i \in 1..n |-> rules[f[i]]] :
         f \in {g \in [1..n -> 1..n] :
                  \A i, j \in 1..n : i # j => g[i] # g[j]}}

\* C11: apply returns the union, over the stored rules whose prefix is a
\* literal prefix of the path, of the privilege of the rule's own operation;
\* the requested operation and the order of the rules make no difference,
\* and the mask is empty when no prefix matches.
C11_ApplyIsUnionOverMatchingPrefixes ==
  applied.called =>
    /\ applied.privs = MatchingPrivs(applied.rules, applied.path)
    /\ \A op \in ApplyOpers \cup RuleOpers :
         apply(Construct(0, "", applied.rules), op, applied.path)
           = applied.privs
    /\ \A rules \in Reorderings(applied.rules) :
         apply(Construct(0, "", rules), applied.oper, applied.path)
           = applied.privs
    /\ (\A i \in 1..Len(applied.rules) :
          ~IsPrefix(applied.rules[i][2], applied.path))
         => applied.privs = XrdAccPriv_None

\* C11 witness: rules (Read, a) and (Create, ab) applied to path abc for an
\* Update give Read and Create.
C11_Witness ==
  /\ applied.called
  /\ applied.rules = << <<"AOP_Read", <<"a">> >>,
                        <<"AOP_Create", <<"a", "b">> >> >>
  /\ applied.path = <<"a", "b", "c">>
  /\ applied.oper = "AOP_Update"
  /\ applied.privs = {"XrdAccPriv_Read", "XrdAccPriv_Create"}

\* the positions of s where a run of characters other than comma and space
\* begins
RunStarts(s) ==
  {i \in 1..Len(s) :
     /\ s[i] \notin {",", " "}
     /\ i = 1 \/ s[i - 1] \in {",", " "}}

\* the last position of the run that begins at i
RunEnd(s, i) ==
  CHOOSE j \in i..Len(s) :
    /\ \A k \in i..j : s[k] \notin {",", " "}
    /\ j = Len(s) \/ s[j + 1] \in {",", " "}

\* the n-th run start, counting from the left
NthRunStart(s, n) ==
  CHOOSE i \in RunStarts(s) :
    Cardinality({j \in RunStarts(s) : j < i}) = n - 1

\* the maximal non-empty runs of characters other than comma and space, in
\* order
Runs(s) ==
  [n \in 1..Cardinality(RunStarts(s)) |->
     SubSeq(s, NthRunStart(s, n), RunEnd(s, NthRunStart(s, n)))]

\* the section's name begins with "global", whatever the case of its letters
NamedGlobal(name) ==
  /\ Len(name) >= 6
  /\ \A i \in 1..6 :
       name[i] \in {<<"g", "l", "o", "b", "a", "l">>[i],
                    <<"G", "L", "O", "B", "A", "L">>[i]}

\* an audience_json value of a section that Reconfig accepts
GoodJson(json) ==
  \/ json.kind = "empty"
  \/ /\ json.kind = "array"
     /\ \A i \in 1..Len(json.vals) : json.vals[i].is_string

\* the source is readable and parsable and every audience_json of a global
\* section is empty or an array of strings
ValidConfig(cfg) ==
  /\ cfg.error = 0
  /\ \A i \in 1..Len(cfg.sections) :
       NamedGlobal(cfg.sections[i].name)
         => GoodJson(cfg.sections[i].audience_json)

\* the audiences a valid source lists: per global section, the runs of its
\* audience value, then the strings of its audience_json array
RECURSIVE AudiencesOf(_)
AudiencesOf(sections) ==
  IF sections = <<>> THEN <<>>
  ELSE LET sec == Head(sections)
           own == IF NamedGlobal(sec.name)
                    THEN Runs(sec.audience)
                         \o [i \in 1..Len(sec.audience_json.vals) |->
                               sec.audience_json.vals[i].s]
                    ELSE <<>>
       IN  own \o AudiencesOf(Tail(sections))

\* C12: a Reconfig that fails (source unreadable or unparsable, audience_json
\* invalid, not an array, or holding an element that is not a string) leaves
\* m_audiences as it was; a Reconfig that succeeds leaves in m_audiences the
\* list of the source it read and nothing else.
C12_FailedReconfigKeepsAudiences ==
  [][IF ValidConfig(reconf'.config)
       THEN /\ reconf'.ok
            /\ m_audiences' = AudiencesOf(reconf'.config.sections)
       ELSE /\ ~reconf'.ok
            /\ m_audiences' = m_audiences]_vars

\* C12 witness: a Reconfig failed after it had gathered audiences, and the
\* list of an earlier load, a different one, is in place.
C12_Witness ==
  /\ ~reconf.ok
  /\ parseConfig(reconf.config).audiences # <<>>
  /\ m_audiences # <<>>
  /\ m_audiences # parseConfig(reconf.config).audiences

\* C13: a call that resolved an XrdAccRules object leaves the entity with the
\* object's username exactly when the username is not empty and the entity
\* came without a name, and with the name it came with otherwise; the chain,
\* when it is asked because the rules gave the empty mask, is asked with the
\* name the entity has after that.
C13_IdentityAssignedOnlyIfUnset ==
  ResolvedReturn =>
    LET username == ret.rules[1].m_username
    IN  /\ (username # "" /\ ret.name_in = NoName) => ret.name = username
        /\ ~(username # "" /\ ret.name_in = NoName) => ret.name = ret.name_in
        /\ ret.chained =>
             ret.result = ChainAccess(ret.name, ret.path, ret.oper)

\* C13 witness: an entity without a name was given the token's username, the
\* rules gave the empty mask, and the chain, which grants nothing to an
\* entity without a name, granted.
C13_Witness ==
  /\ ResolvedReturn
  /\ ret.name_in = NoName
  /\ ret.name = ret.rules[1].m_username
  /\ ret.chained
  /\ ret.result # {}
  /\ ChainAccess(NoName, ret.path, ret.oper) = {}

\* what a successful validation of token tok at local time n may construct
Validated(tok, n) ==
  {[m_expiry_time |-> n + e, m_username |-> UserOf(tok),
    m_rules |-> RulesOf(tok)] : e \in CacheExpiries}

\* C14: when the validator succeeds, the call constructs an XrdAccRules with
\* the token's rules and username and expiry now + cache_expiry, now being
\* the call's local time of line 155; it stores that object under its own
\* token and no other, over whatever entry was there, and goes on to use it;
\* so every entry of the cache is what a validation of its key gave.
C14_ValidatedRulesStoredUnderToken ==
  [][/\ \A t \in Threads :
          /\ (pc[t] = "generate" /\ pc'[t] = "lock2") =>
                /\ now[t] <= clock
                /\ access_rules'[t] # <<>>
                /\ access_rules'[t][1] \in Validated(authz[t], now[t])
          /\ (pc[t] = "insert" /\ pc'[t] = "finish") =>
                /\ m_map' = [m_map EXCEPT ![authz[t]] = access_rules[t]]
                /\ access_rules'[t] = access_rules[t]
                /\ how'[t] = "generated"
          /\ (pc[t] = "finish" /\ how[t] = "generated" /\ ret'.thread = t) =>
                /\ ret'.rules = access_rules[t]
                /\ ret'.privs = MatchingPrivs(RulesOf(authz[t]), ret'.path)
     /\ \A k \in Tokens :
          m_map'[k] # <<>> =>
            \E n \in Instants : m_map'[k][1] \in Validated(k, n)]_vars

\* C14 witness: a call that sampled now = 0 stored its object, with expiry
\* now + 0, when the clock had moved on, over the entry another call had
\* stored and a third had taken from the cache.
C14_Witness ==
  \E t, u \in Threads :
    /\ pc[t] = "finish" /\ how[t] = "generated"
    /\ m_map[authz[t]] = access_rules[t]
    /\ access_rules[t][1].m_expiry_time = 0
    /\ clock > 0
    /\ pc[u] = "finish" /\ how[u] = "hit"
    /\ authz[u] = authz[t]
    /\ access_rules[u] # access_rules[t]

\* C15: an XrdAccRules object is complete when it enters the cache and is
\* never changed afterwards: a cache slot changes its content only when a
\* call overwrites it with its own new object, whose rules are already
\* parsed, or when the entry is erased; and the object a call holds stays as
\* it is until the call returns, whatever happens to the cache entry it was
\* taken from.
C15_RulesNeverChangeOnceCached ==
  [][/\ \A k \in Tokens :
          (m_map[k] # <<>> /\ m_map'[k] # <<>> /\ m_map'[k] # m_map[k]) =>
            \E t \in Threads :
              /\ pc[t] = "insert" /\ pc'[t] = "finish"
              /\ authz[t] = k
              /\ m_map'[k] = access_rules[t]
     /\ \A t \in Threads :
          /\ pc[t] = "insert" =>
                access_rules[t][1].m_rules = RulesOf(authz[t])
          /\ (access_rules[t] # <<>> /\ pc'[t] \notin {"idle", "aborted"}) =>
                access_rules'[t] = access_rules[t]
          /\ (pc[t] = "finish" /\ ret'.thread = t) =>
                ret'.rules = access_rules[t]]_vars

\* C15 witness: a call holds the object it took from the cache while the
\* entry has been swept away.
C15_Witness ==
  \E t \in Threads :
    /\ pc[t] = "finish" /\ how[t] = "hit"
    /\ m_map[authz[t]] = <<>>
    /\ access_rules[t][1].m_rules = RulesOf(authz[t])

\* C16: a thread holds m_mutex only inside the guarded lookup and the
\* guarded insert: not while GenerateAcls runs or the XrdAccRules object is
\* constructed, not while the rules are applied or the chain is asked; a
\* thread waiting for the lock is never kept out by a thread that is in the
\* validator.
C16_LockNotHeldOutsideMapAccess ==
  \A t \in Threads :
    /\ pc[t] \in {"idle", "generate", "finish"} => m_mutex # t
    /\ m_mutex = t => pc[t] \in {"lookup", "insert"}
    /\ \A u \in Threads \ {t} :
         (pc[t] = "generate" /\ pc[u] = "lock1") => ENABLED Access_Lock1(u)

\* C16 witness: one thread is in the validator; another, with another
\* token, stands before the lock, which is free.
C16_Witness ==
  \E t, u \in Threads :
    /\ pc[t] = "generate"
    /\ pc[u] = "lock1"
    /\ authz[u] # authz[t]
    /\ m_mutex = 0

\* the last return resolved rules of which some match the path, all of them
\* recorded under AOP_Any
OnlyAnyMatches ==
  /\ ResolvedReturn
  /\ LET rules == ret.rules[1].m_rules
         matching == {i \in 1..Len(rules) : IsPrefix(rules[i][2], ret.path)}
     IN  /\ matching # {}
         /\ \A i \in matching : rules[i][1] = "AOP_Any"

\* C17 as stated: when the only rules that match the path are recorded
\* under AOP_Any, the call returns the empty mask and the chain is not asked.
C17_AnyOnlyStopsBeforeChain ==
  OnlyAnyMatches => (ret.result = {} /\ ~ret.chained)

\* C17 amended: when the only rules that match the path are recorded under
\* AOP_Any, the rules give the empty mask, and the call asks the chain if
\* there is one and returns its answer; it returns the empty mask when there
\* is no chain.
C17_AnyOnlyDefersToChain ==
  OnlyAnyMatches =>
    /\ ret.privs = {}
    /\ ret.chained = m_chain
    /\ ret.result = ChainAnswer(ret.name)

\* C17 witness: only an AOP_Any rule matched, and the chain granted.
C17_Witness ==
  /\ OnlyAnyMatches
  /\ ret.chained
  /\ ret.result # {}

\* the source Reconfig has just read holds one section, a global one, with an
\* audience value and no audience_json
LoneAudience ==
  /\ reconf'.config.error = 0
  /\ Len(reconf'.config.sections) = 1
  /\ NamedGlobal(reconf'.config.sections[1].name)
  /\ reconf'.config.sections[1].audience_json.kind = "empty"

\* C19: from an audience value Reconfig takes the maximal non-empty runs of
\* characters other than comma and space, in order, and nothing else; and a
\* Reconfig that reads the valid source the call before it read leaves the
\* audience list as that call left it.
C19_AudienceSplitIntoRuns ==
  [][/\ LoneAudience =>
          /\ reconf'.ok
          /\ m_audiences' = Runs(reconf'.config.sections[1].audience)
     /\ (reconf'.again /\ reconf'.ok) => m_audiences' = m_audiences]_vars

\* C19 witness: "alice, bob carol" was loaded twice in a row and the list is
\* alice, bob, carol.
C19_Witness ==
  /\ reconf.ok
  /\ reconf.again
  /\ reconf.config.sections
       = <<Section(SectionOrder[1], ExampleAudience, NoJson)>>
  /\ m_audiences = << <<"a", "l", "i", "c", "e">>, <<"b", "o", "b">>,
                      <<"c", "a", "r", "o", "l">> >>

\* C20: with the GenerateAcls of this repository the cache stays empty, no
\* call ever holds an XrdAccRules object or names an entity, and every call,
\* with a token or without, returns the chain's answer, or the empty mask
\* when there is no chain.
C20_StubValidatorOnlyDelegates ==
  validator = "stub" =>
    /\ \A k \in Tokens : m_map[k] = <<>>
    /\ \A t \in Threads : access_rules[t] = <<>>
    /\ ret.thread # 0 =>
         /\ ret.rules = <<>>
         /\ ret.name = ret.name_in
         /\ ret.result = ChainAnswer(ret.name_in)

\* C20 witness: with the GenerateAcls of this repository a call with a token
\* returned the chain's grant, at a time when a sweep was due.
C20_Witness ==
  /\ validator = "stub"
  /\ ret.how = "false"
  /\ ret.authz \in Tokens
  /\ ret.result # {}
  /\ SweepDue(clock, m_next_clean)

====
